---------------------------- MODULE Spec2Model ----------------------------
(***************************************************************************)
(* Model of the relay-coordination genetic algorithm of AutoDOC-MG:        *)
(*   scripts/ga_optimization_fast.py   (variant "fast")                    *)
(*   scripts/optimize_all_scenarios.py (variant "oas")                     *)
(*                                                                         *)
(* Floating-point quantities are fixed-point integers:                     *)
(*   currents and pickups in 0.01 A, TDS in 0.01, times and fitness in ms. *)
(* random.random() is a numerator r over RandDen, 0 <= r < RandDen.        *)
(***************************************************************************)
EXTENDS Integers, Sequences, FiniteSets, TLC

VARIABLES
    variant,   \* which script runs: "fast" or "oas"
    scen,      \* scenario_id of the run
    pc,        \* position of the run inside genetic_algorithm_optimization
    X,         \* population: sequence of individuals, each Nv genes + fitness
    X_best,    \* best individual seen so far (genes + fitness)
    stall,     \* generations without improvement
    gen,       \* generation counter of the for loop
    H1, H2,    \* children of the current generation
    gate,      \* what the replacement gate of the last generation decided
    call, ret, \* a direct call of relay_time / fitness and what it returned
    procs,     \* whole-process executions of the batch driver (seeded RNG)
    quiet,     \* history: consecutive latest generations that left X_best as it was
    scenario_map, \* the map group_data_by_scenario is building
    sel,       \* s1, s2 (parent indices) and cp (cut point), until last read
    parents    \* history: the slots of the two parents of the generation

vars == <<variant, scen, pc, X, X_best, stall, gen, H1, H2, gate, call, ret, procs,
          quiet, scenario_map, sel, parents>>

-----------------------------------------------------------------------------
(* Constants of both scripts, in the fixed-point units above.              *)

K == 14                  \* 0.14
CTI == 200               \* 0.20 s
MIN_TDS == 5             \* 0.05
MAX_TDS == 80            \* 0.8
MIN_PICKUP == 5          \* 0.05
MAX_PICKUP_FACTOR == 6   \* 0.6, in tenths
MAX_TIME == 10000        \* 10.0 s
GA_nMut == 2
Inf == 1000000           \* float("inf") of the IscMin initialisation

(* The GA parameters.  The scripts ship Ni = 80 and iterno = maxGen = 1000 *)
(* (fast) or 50000 (oas); the model runs a population of 2 for maxGen      *)
(* generations.                                                            *)
GA_Ni == 2
GA_maxGen == 2
GA_iterno == 1

Variants == {"fast", "oas"}

-----------------------------------------------------------------------------
(* Scenarios as group_data_by_scenario delivers them.                      *)

Pair(m, b, im, ib) ==
    [main_relay |-> m, backup_relay |-> b, Ishc_main |-> im, Ishc_backup |-> ib]

\* str(r).strip() is empty
Blank(r) == r \in {"", " "}

\* scenario_data: names is scenario_data["relays"]; relays is the local list
\* of the run, relays = [r for r in scenario_data["relays"] if str(r).strip()]
ScenarioData(names, pairs) ==
    [names  |-> names,
     relays |-> SelectSeq(names, LAMBDA r : ~Blank(r)),
     pairs  |-> pairs]

\* scenario ids in the order the drivers sort them
ScenarioOrder ==
    <<"scenario_0", "scenario_1", "scenario_2", "scenario_3", "scenario_4",
      "scenario_5", "scenario_6", "scenario_7">>

ScenarioIds == {ScenarioOrder[i] : i \in 1..Len(ScenarioOrder)}

\* scenario_1 .. scenario_5 are maps group_data_by_scenario delivers, and so
\* is scenario_6, whose fault current puts the pickup ceiling below
\* MIN_PICKUP.  scenario_0 (only blank relay names) and scenario_7 (a pair
\* naming a relay that is not listed) are scenario_data handed to the run
\* directly.
ScenarioMap ==
    [s \in ScenarioIds |->
        CASE s = "scenario_0" ->
               ScenarioData(<<" ", " ", " ">>,
                   << Pair(" ", " ", 100, 100), Pair(" ", " ", 100, 100),
                      Pair(" ", " ", 100, 100), Pair(" ", " ", 100, 100),
                      Pair(" ", " ", 100, 100) >>)
          [] s = "scenario_1" ->
               ScenarioData(<<"A", "B">>, << Pair("A", "B", 100, 100) >>)
          [] s = "scenario_2" ->
               ScenarioData(<<"A", "B">>,
                   << Pair("A", "B", 100, 80), Pair("B", "A", 50, 100) >>)
          [] s = "scenario_3" ->
               ScenarioData(<<"A">>, << Pair("A", "A", 100, 80) >>)
          [] s = "scenario_4" ->
               ScenarioData(<<"A", "B", "C">>,
                   << Pair("A", "B", 100, 80), Pair("B", "C", 90, 70),
                      Pair("A", "C", 100, 60), Pair("B", "A", 50, 100),
                      Pair("C", "B", 40, 90) >>)
          [] s = "scenario_5" ->
               ScenarioData(<<"A", "B", "C">>,
                   << Pair("A", "B", 100, 90), Pair("B", "C", 100, 90),
                      Pair("A", "C", 100, 80), Pair("C", "A", 80, 70),
                      Pair("B", "A", 100, 90) >>)
          [] s = "scenario_6" ->
               ScenarioData(<<"A">>, << Pair("A", "A", 6, 5) >>)
          [] s = "scenario_7" ->
               ScenarioData(<<"A", "B", "C">>,
                   << Pair("A", "D", 100, 80), Pair("B", "C", 90, 70),
                      Pair("A", "C", 100, 60), Pair("B", "A", 50, 100),
                      Pair("C", "B", 40, 90) >>)]

\* the scenarios whose runs are explored with every random draw left open
RunScenarioIds ==
    {"scenario_0", "scenario_1", "scenario_2", "scenario_3", "scenario_6"}

\* the scenarios of the batches of the seeded executions
BatchScenarioIds ==
    {"scenario_0", "scenario_2", "scenario_4", "scenario_5", "scenario_7"}

nR(sc) == Len(sc.relays)
Nv(sc) == 2 * nR(sc)

\* idx = {relays[i]: i for i in range(nR)}
idx(sc, name) == CHOOSE i \in 1..nR(sc) : sc.relays[i] = name

\* idx[p["main_relay"]] or idx[p["backup_relay"]] raises KeyError for a pair
KeyErrors(sc) ==
    \E n \in 1..Len(sc.pairs) :
        \/ \A i \in 1..nR(sc) : sc.relays[i] # sc.pairs[n].main_relay
        \/ \A i \in 1..nR(sc) : sc.relays[i] # sc.pairs[n].backup_relay

Min(a, b) == IF a < b THEN a ELSE b
Max(a, b) == IF a > b THEN a ELSE b

\* IscMin after the first n pairs of the scan
RECURSIVE IscMinScan(_, _)
IscMinScan(sc, n) ==
    IF n = 0 THEN [i \in 1..nR(sc) |-> Inf]
    ELSE LET prev == IscMinScan(sc, n - 1)
             p    == sc.pairs[n]
             mi   == idx(sc, p.main_relay)
             bi   == idx(sc, p.backup_relay)
             afterMain == [prev EXCEPT ![mi] = Min(prev[mi], p.Ishc_main)]
         IN  [afterMain EXCEPT ![bi] = Min(afterMain[bi], p.Ishc_backup)]

\* (mutant) only the currents a relay sees as main relay count
IscMinMainOnly(sc) ==
    [i \in 1..nR(sc) |->
        LET fc == {sc.pairs[n].Ishc_main :
                      n \in {m \in 1..Len(sc.pairs) : sc.pairs[m].main_relay = sc.relays[i]}}
        IN  IF fc = {} THEN Inf ELSE CHOOSE c \in fc : \A e \in fc : c <= e]

IscMin(sc) == IscMinScan(sc, Len(sc.pairs))

\* xmin = [MIN_TDS]*nR + [MIN_PICKUP]*nR
xmin(sc) == [j \in 1..Nv(sc) |-> IF j <= nR(sc) THEN MIN_TDS ELSE MIN_PICKUP]

\* (mutant) the pickup ceiling at twice the least fault current
xmaxTwice(sc) ==
    [j \in 1..Nv(sc) |->
        IF j <= nR(sc) THEN MAX_TDS ELSE 2 * IscMin(sc)[j - nR(sc)]]

\* xmax = [MAX_TDS]*nR + [MAX_PICKUP_FACTOR*IscMin[i]]
xmax(sc) ==
    [j \in 1..Nv(sc) |->
        IF j <= nR(sc) THEN MAX_TDS
        ELSE (MAX_PICKUP_FACTOR * IscMin(sc)[j - nR(sc)]) \div 10]

-----------------------------------------------------------------------------
(* The IEC inverse-time law.  (I/PU)**N - 1.0 with N = 0.02, in            *)
(* thousandths, rounded down: PowThreshold[d] is the least ratio I/PU (in  *)
(* 1/10000) at which the float expression reaches d/1000.  A ratio below   *)
(* PowThreshold[1] gives 0, the float case (I/PU)**N == 1.0.               *)

PowThreshold ==
    << 10513, 11051, 11616, 12210, 12833, 13487, 14174, 14895, 15652, 16447,
       17281, 18157, 19076, 20041, 21053, 22115, 23230, 24400, 25628, 26916,
       28268, 29686, 31174, 32734, 34372, 36089, 37890, 39780, 41761, 43840,
       46019, 48305, 50701, 53215, 55850, 58613, 61509, 64546, 67730, 71067,
       74566, 78233, 82076, 86105, 90327, 94752, 99389, 104248, 109339, 114674,
       120265, 126121, 132257, 138686, 145420, 152475, 159864, 167604, 175711,
       184202, 193095, 202408, 212160, 222373, 233067, 244265, 255989, 268265,
       281116, 294571, 308656, 323400, 338834, 354989, 371898, 389596, 408118,
       427502, 447788, 469017, 491230, 514474, 538795, 564241, 590864, 618716,
       647855, 678336, 710222, 743576, 778463, 814952, 853117, 893031, 934773,
       978426, 1024075, 1071809, 1121721, 1173909 >>

\* the number of thresholds among the first hi that the ratio I/PU reaches,
\* knowing that it reaches the first lo
RECURSIVE PowSearch(_, _, _, _)
PowSearch(I, PU, lo, hi) ==
    IF lo = hi THEN lo
    ELSE LET mid == (lo + hi + 1) \div 2
         IN  IF PowThreshold[mid] * PU <= 10000 * I
             THEN PowSearch(I, PU, mid, hi)
             ELSE PowSearch(I, PU, lo, mid - 1)

\* (I / PU) ** N - 1.0, for I > PU > 0
PowMinus1(I, PU) == PowSearch(I, PU, 0, Len(PowThreshold))

\* min(max(t, 0.0), MAX_TIME * 10.0)
Clamp(t) == Min(Max(t, 0), MAX_TIME * 10)

\* t = TDS * (K / ((I / PU) ** N - 1.0)) over the denominator d, in ms
RawTime(TDS, d) == (TDS * K * 100) \div d

\* I / PU or K / ((I/PU)**N - 1.0) divides by zero
ZeroDivision(I, PU) == PU = 0 \/ PowMinus1(I, PU) = 0

\* relay_time of ga_optimization_fast.py: the arithmetic failure is caught
relay_time(I, PU, TDS) ==
    IF I <= PU THEN MAX_TIME * 10
    ELSE IF PU = 0 THEN MAX_TIME * 10
    ELSE LET d == PowMinus1(I, PU)
         IN  IF d = 0 THEN MAX_TIME * 10 ELSE Clamp(RawTime(TDS, d))

\* relay_time of optimize_all_scenarios.py has no try/except: it raises
relay_time_oas_raises(I, PU) == I > PU /\ ZeroDivision(I, PU)

\* ... and otherwise returns
relay_time_oas(I, PU, TDS) ==
    IF I <= PU THEN MAX_TIME * 10 ELSE Clamp(RawTime(TDS, PowMinus1(I, PU)))

relay_time_of(v, I, PU, TDS) ==
    IF v = "fast" THEN relay_time(I, PU, TDS) ELSE relay_time_oas(I, PU, TDS)

-----------------------------------------------------------------------------
(* fitness: Total Miscoordination Time of an individual.                   *)

tM(v, sc, ind, n) ==
    LET p == sc.pairs[n]  mi == idx(sc, p.main_relay)
    IN  relay_time_of(v, p.Ishc_main, ind[nR(sc) + mi], ind[mi])

tB(v, sc, ind, n) ==
    LET p == sc.pairs[n]  bi == idx(sc, p.backup_relay)
    IN  relay_time_of(v, p.Ishc_backup, ind[nR(sc) + bi], ind[bi])

\* (mutant) both terms added whatever their sign
PairPenaltyUnguarded(tm, tb) == (CTI - (tb - tm)) + (tm - MAX_TIME)

\* (mutant) the time-limit term forgotten
PairPenaltyCtiOnly(tm, tb) == IF (tb - tm) < CTI THEN CTI - (tb - tm) ELSE 0

\* what one pair adds to tmt
PairPenalty(tm, tb) ==
    (IF (tb - tm) < CTI THEN CTI - (tb - tm) ELSE 0)
    + (IF tm > MAX_TIME THEN tm - MAX_TIME ELSE 0)

\* tmt after the first n pairs of the loop
RECURSIVE tmt(_, _, _, _)
tmt(v, sc, ind, n) ==
    IF n = 0 THEN 0
    ELSE tmt(v, sc, ind, n - 1) + PairPenalty(tM(v, sc, ind, n), tB(v, sc, ind, n))

fitness(v, sc, ind) == tmt(v, sc, ind, Len(sc.pairs))

\* fitness of optimize_all_scenarios.py lets relay_time's exception through
fitness_raises(v, sc, ind) ==
    /\ v = "oas"
    /\ \E n \in 1..Len(sc.pairs) :
          LET p  == sc.pairs[n]
              mi == idx(sc, p.main_relay)
              bi == idx(sc, p.backup_relay)
          IN  \/ relay_time_oas_raises(p.Ishc_main, ind[nR(sc) + mi])
              \/ relay_time_oas_raises(p.Ishc_backup, ind[nR(sc) + bi])

-----------------------------------------------------------------------------
(* Random draws.  random.random() returns r / RandDen for a numerator r of *)
(* RandNums; the draws of one call are a sequence of numerators.           *)

RandDen == 100
RandNums == {0, 99}

\* the bounds of every scenario, derived once per run (lines 188-202)
Bounds == [s \in ScenarioIds |->
              IF nR(ScenarioMap[s]) = 0 \/ KeyErrors(ScenarioMap[s])
              THEN [xmin |-> <<>>, xmax |-> <<>>]     \* the run never gets there
              ELSE [xmin |-> xmin(ScenarioMap[s]), xmax |-> xmax(ScenarioMap[s])]]

\* (mutant) the draw scaled by xmax instead of the width of the interval
DrawGeneNoOffset(bd, j, r) == bd.xmin[j] + (r * bd.xmax[j]) \div RandDen

\* xmin[j] + random.random() * (xmax[j] - xmin[j])
DrawGene(bd, j, r) == bd.xmin[j] + (r * (bd.xmax[j] - bd.xmin[j])) \div RandDen

F(r) == r[Len(r)]                      \* r[Nv], the cached fitness slot
Genes(r) == SubSeq(r, 1, Len(r) - 1)   \* r[:Nv]

\* list.sort(key=lambda r: r[Nv]) is stable: a row goes after its equals
RECURSIVE InsertByFitness(_, _)
InsertByFitness(sorted, row) ==
    IF sorted = <<>> THEN <<row>>
    ELSE IF F(row) < F(sorted[Len(sorted)])
         THEN Append(InsertByFitness(SubSeq(sorted, 1, Len(sorted) - 1), row),
                     sorted[Len(sorted)])
         ELSE Append(sorted, row)

\* (mutant) the population left in the order it has
Unsorted(rows) == rows

RECURSIVE SortByFitness(_)
SortByFitness(rows) ==
    IF rows = <<>> THEN <<>>
    ELSE InsertByFitness(SortByFitness(SubSeq(rows, 1, Len(rows) - 1)),
                         rows[Len(rows)])

\* (mutant) the fitness slot filled without evaluating the individual
WithFitnessZero(v, sc, ind) == Append(ind, 0)

\* individual + [fitness(individual)]
WithFitness(v, sc, ind) == Append(ind, fitness(v, sc, ind))

\* the initial population, from the Ni * Nv draws rs[k][j], already sorted
InitialPopulation(v, sc, bd, rs) ==
    SortByFitness([k \in 1..GA_Ni |->
        WithFitness(v, sc, [j \in 1..Nv(sc) |-> DrawGene(bd, j, rs[k][j])])])

\* (mutant) the child is the first parent, nothing is swapped
CrossoverChildCopy(P1, P2, cp) == P1

\* H1 = P1[:cp] + P2[cp:]
CrossoverChild(P1, P2, cp) == SubSeq(P1, 1, cp) \o SubSeq(P2, cp + 1, Len(P2))

\* mutate(child): positions ms (0-based sample of range(Nv)) get draws rs
RECURSIVE mutate(_, _, _, _)
mutate(child, bd, ms, rs) ==
    IF ms = <<>> THEN child
    ELSE mutate([child EXCEPT ![Head(ms) + 1] = DrawGene(bd, Head(ms) + 1, Head(rs))],
                bd, Tail(ms), Tail(rs))

Abs(a) == IF a < 0 THEN -a ELSE a

\* all(abs(child[j] - X[k][j]) < 1e-12 for j in range(Nv)) for some k;
\* 1e-12 is below the fixed-point resolution, so "< 1" of a unit
IsDuplicate(child, Xs, sc) ==
    \E k \in 1..GA_Ni : \A j \in 1..Nv(sc) : Abs(child[j] - Xs[k][j]) < 1

\* (mutant) the child with the higher fitness goes to the gate
BestChildLast(h1, f1, h2, f2) == IF f1 <= f2 THEN Append(h2, f2) ELSE Append(h1, f1)

\* candidates.sort(key=lambda t: t[1]); child, fchild = candidates[0]
BestChild(h1, f1, h2, f2) == IF f1 <= f2 THEN Append(h1, f1) ELSE Append(h2, f2)

\* the replacement gate: fchild < X[-1][Nv] and not duplicate
Accepts(sc, Xs, row) == F(row) < F(Xs[GA_Ni]) /\ ~IsDuplicate(row, Xs, sc)

\* the branch the gate takes (lines 275-282)
GateOutcome(sc, Xs, row) ==
    IF ~(F(row) < F(Xs[GA_Ni])) THEN "not_better"
    ELSE IF IsDuplicate(row, Xs, sc) THEN "duplicate" ELSE "inserted"

\* (mutant) the child put in place of X[0]
NextPopulationReplacesBest(v, sc, Xs, row) ==
    IF Accepts(sc, Xs, row) THEN SortByFitness([Xs EXCEPT ![1] = row])
    ELSE IF v = "fast" THEN SortByFitness(Xs) ELSE Xs

\* (mutant) the child appended to the population instead of replacing X[-1]
NextPopulationAppend(v, sc, Xs, row) ==
    IF Accepts(sc, Xs, row) THEN SortByFitness(Append(Xs, row))
    ELSE IF v = "fast" THEN SortByFitness(Xs) ELSE Xs

\* the population after the gate and the sort of a generation; the sort is
\* unconditional in fast and inside the gate in oas
NextPopulation(v, sc, Xs, row) ==
    IF Accepts(sc, Xs, row) THEN SortByFitness([Xs EXCEPT ![GA_Ni] = row])
    ELSE IF v = "fast" THEN SortByFitness(Xs) ELSE Xs

\* does the generation reach the "update best solution" statement?
UpdatesBest(v, sc, Xs, row) == v = "fast" \/ Accepts(sc, Xs, row)

\* (mutant) X_best follows the inserted child instead of the improved X[0]
GenerationTracksChild(v, sc, Xs, best, st, h1, h2) ==
    LET row == BestChild(h1, fitness(v, sc, h1), h2, fitness(v, sc, h2))
        Xn  == NextPopulation(v, sc, Xs, row)
        upd == UpdatesBest(v, sc, Xs, row)
        imp == F(Xn[1]) < F(best)
    IN  [X      |-> Xn,
         X_best |-> IF Accepts(sc, Xs, row) THEN row ELSE best,
         stall  |-> IF ~upd THEN st ELSE IF imp THEN 0 ELSE st + 1,
         gate   |-> GateOutcome(sc, Xs, row)]

\* (mutant) a generation without improvement adds 2 to stall
GenerationCountsTwice(v, sc, Xs, best, st, h1, h2) ==
    LET row == BestChild(h1, fitness(v, sc, h1), h2, fitness(v, sc, h2))
        Xn  == NextPopulation(v, sc, Xs, row)
        upd == UpdatesBest(v, sc, Xs, row)
        imp == F(Xn[1]) < F(best)
    IN  [X      |-> Xn,
         X_best |-> IF upd /\ imp THEN Xn[1] ELSE best,
         stall  |-> IF ~upd THEN st ELSE IF imp THEN 0 ELSE st + 2,
         gate   |-> GateOutcome(sc, Xs, row)]

\* lines 267-291 (fast), 168-186 (oas): what a generation with the mutated
\* children h1, h2 makes of the population, the best solution and stall
Generation(v, sc, Xs, best, st, h1, h2) ==
    LET row == BestChild(h1, fitness(v, sc, h1), h2, fitness(v, sc, h2))
        Xn  == NextPopulation(v, sc, Xs, row)
        upd == UpdatesBest(v, sc, Xs, row)
        imp == F(Xn[1]) < F(best)
    IN  [X      |-> Xn,
         X_best |-> IF upd /\ imp THEN Xn[1] ELSE best,
         stall  |-> IF ~upd THEN st ELSE IF imp THEN 0 ELSE st + 1,
         gate   |-> GateOutcome(sc, Xs, row)]

\* (mutant) the loop not bounded by range(1, GA_maxGen + 1)
StopsWithoutCap(best, st, g) == F(best) = 0 \/ st >= GA_iterno

\* the stopping criteria at the end of generation g, and the end of the range
Stops(best, st, g) == F(best) = 0 \/ st >= GA_iterno \/ g >= GA_maxGen

\* (mutant) the value cut after its fifth decimal place
Round5Truncates(x, den) ==
    IF den <= 100000 THEN x * (100000 \div den) ELSE x \div (den \div 100000)

\* round(x, 5) of a value x / den (den a power of ten), in units of 0.00001:
\* exact when x has at most five decimal places, else to the nearest, an
\* exact tie to the even neighbour
Round5(x, den) ==
    IF den <= 100000 THEN x * (100000 \div den)
    ELSE LET k == den \div 100000
             q == x \div k
             r == x % k
         IN  IF 2 * r < k THEN q
             ELSE IF 2 * r > k THEN q + 1
             ELSE IF q % 2 = 0 THEN q ELSE q + 1

\* (mutant) the settings taken from the last individual of the population
optimizedFromWorst(sc, Xs, best, den) ==
    [name \in {sc.relays[r] : r \in 1..nR(sc)} |->
        LET r == CHOOSE i \in 1..nR(sc) :
                    sc.relays[i] = name /\ \A k \in (i + 1)..nR(sc) : sc.relays[k] # name
        IN  [TDS    |-> Round5(Xs[Len(Xs)][r], den),
             pickup |-> Round5(Xs[Len(Xs)][nR(sc) + r], den)]]

\* lines 307-318: best = X_best[:Nv] split at nR and keyed by relays[r]; a
\* name listed twice keeps the entry of its last index.  The genes are
\* multiples of 1 / den.
optimized(sc, Xs, best, den) ==
    [name \in {sc.relays[r] : r \in 1..nR(sc)} |->
        LET r == CHOOSE i \in 1..nR(sc) :
                    sc.relays[i] = name /\ \A k \in (i + 1)..nR(sc) : sc.relays[k] # name
        IN  [TDS    |-> Round5(best[r], den),
             pickup |-> Round5(best[nR(sc) + r], den)]]

\* the genes of a run are multiples of 0.01
GeneDen == 100

-----------------------------------------------------------------------------
(* One run of genetic_algorithm_optimization / genetic_algorithm, its       *)
(* random draws left open.                                                 *)

Scenario == ScenarioMap[scen]

NoCall == [fn |-> "none"]

\* s1, s2 and cp before the first generation and after their last read, the
\* crossover of lines 252-257
NoSelection == [s1 |-> 0, s2 |-> 0, cp |-> 0]

Init ==
    /\ variant \in Variants
    /\ scen \in RunScenarioIds
    /\ pc = "init"
    /\ X = <<>> /\ X_best = <<>>
    /\ stall = 0 /\ gen = 0
    /\ H1 = <<>> /\ H2 = <<>> /\ gate = "none"
    /\ call = NoCall /\ ret = NoCall
    /\ quiet = 0 /\ scenario_map = <<>> /\ sel = NoSelection /\ parents = {}
    /\ procs = <<>>

Returned(t) == [raised |-> FALSE, value |-> t]
Raised == [raised |-> TRUE]

\* (mutant) only an exception counts as a failure
DriverStatusByException(result) == IF result.raised THEN "error" ELSE "success"

\* lines 380-423 (oas 251-301): what the driver makes of a run: the except
\* clause, "if optimized_values:" and its else
DriverStatus(result) ==
    IF result.raised THEN "error"
    ELSE IF result.value = <<>> THEN "failed" ELSE "success"

\* lines 182-186: nR == 0, return {}
ReturnEmpty ==
    /\ pc = "init"
    /\ nR(Scenario) = 0
    /\ pc' = "done"
    /\ ret' = Returned(<<>>)
    /\ UNCHANGED <<variant, scen, X, X_best, stall, gen, H1, H2, gate, call, procs,
                   quiet, scenario_map, sel, parents>>

\* lines 237-249: initial population, sort, X_best, stall = 0
InitPopulation ==
    /\ pc = "init"
    /\ nR(Scenario) # 0
    /\ \E rs \in [1..GA_Ni -> [1..Nv(Scenario) -> RandNums]] :
          X' = InitialPopulation(variant, Scenario, Bounds[scen], rs)
    /\ X_best' = X'[1]
    /\ stall' = 0
    /\ pc' = IF GA_maxGen >= 1 THEN "loop" ELSE "done"
    /\ quiet' = 0
    /\ UNCHANGED <<variant, scen, gen, H1, H2, call, ret, procs, gate, scenario_map, sel, parents>>

\* lines 250-257: next gen of the range, two parents, the cut point
Crossover ==
    /\ pc = "loop"
    /\ gen' = gen + 1
    /\ \E s1, s2 \in 1..GA_Ni, cp \in 1..(Nv(Scenario) - 1) :
          /\ s1 # s2
          /\ sel' = [s1 |-> s1, s2 |-> s2, cp |-> cp]
          /\ parents' = {s1, s2}
          /\ H1' = CrossoverChild(Genes(X[s1]), Genes(X[s2]), cp)
          /\ H2' = CrossoverChild(Genes(X[s2]), Genes(X[s1]), cp)
    /\ pc' = "mutateH1"
    /\ gate' = "none"
    /\ UNCHANGED <<variant, scen, X, X_best, stall, call, ret, procs, quiet, scenario_map>>

\* random.sample(range(n), k), up to the order of the positions
Samples(n, k) ==
    {ms \in [1..k -> 0..(n - 1)] : \A a, b \in 1..k : a < b => ms[a] < ms[b]}

\* line 265: H1 = mutate(H1)
MutateH1 ==
    /\ pc = "mutateH1"
    /\ \E ms \in Samples(Nv(Scenario), GA_nMut), rs \in [1..GA_nMut -> RandNums] :
          H1' = mutate(H1, Bounds[scen], ms, rs)
    /\ pc' = "mutateH2"
    /\ sel' = NoSelection
    /\ UNCHANGED <<variant, scen, X, X_best, stall, gen, H2, call, ret, procs, gate, quiet, scenario_map, parents>>

\* line 266: H2 = mutate(H2)
MutateH2 ==
    /\ pc = "mutateH2"
    /\ \E ms \in Samples(Nv(Scenario), GA_nMut), rs \in [1..GA_nMut -> RandNums] :
          H2' = mutate(H2, Bounds[scen], ms, rs)
    /\ pc' = "replace"
    /\ UNCHANGED <<variant, scen, X, X_best, stall, gen, H1, call, ret, procs, gate, quiet, scenario_map, sel, parents>>

\* lines 267-303: evaluation, replacement gate, sort, best, stopping
\* criteria; when the loop ends, lines 305-320: the settings are returned
Replace ==
    /\ pc = "replace"
    /\ \E g \in {Generation(variant, Scenario, X, X_best, stall, H1, H2)} :
          /\ X' = g.X
          /\ X_best' = g.X_best
          /\ stall' = g.stall
          /\ gate' = g.gate
          /\ quiet' = IF F(g.X_best) < F(X_best) THEN 0 ELSE quiet + 1
          /\ IF Stops(g.X_best, g.stall, gen)
             THEN /\ pc' = "done"
                  /\ ret' = Returned(optimized(Scenario, g.X, g.X_best, GeneDen))
             ELSE /\ pc' = "loop"
                  /\ ret' = ret
    /\ H1' = <<>> /\ H2' = <<>> /\ parents' = {}
    /\ UNCHANGED <<variant, scen, gen, call, procs, scenario_map, sel>>

Next ==
    ReturnEmpty \/ InitPopulation \/ Crossover \/ MutateH1 \/ MutateH2 \/ Replace

Spec == Init /\ [][Next]_vars

-----------------------------------------------------------------------------
(* Properties of one run (Spec).                                           *)

Running == pc \in {"loop", "mutateH1", "mutateH2", "replace"}
Initialized == Running \/ (pc = "done" /\ nR(Scenario) # 0)
GenerationEnded == pc \in {"loop", "done"} /\ gen >= 1

\* the fault currents a relay sees in the pairs of a scenario
FaultCurrents(sc, name) ==
    {sc.pairs[n].Ishc_main : n \in {m \in 1..Len(sc.pairs) : sc.pairs[m].main_relay = name}}
    \cup
    {sc.pairs[n].Ishc_backup : n \in {m \in 1..Len(sc.pairs) : sc.pairs[m].backup_relay = name}}

\* the intervals of the claim: TDS genes in [MIN_TDS, MAX_TDS], pickup genes
\* in [MIN_PICKUP, MAX_PICKUP_FACTOR * min fault current of that relay]
GeneIntervals ==
    [s \in ScenarioIds |->
        LET sc == ScenarioMap[s]
        IN  [j \in 1..Nv(sc) |->
               IF j <= nR(sc) THEN [lo |-> MIN_TDS, hi |-> MAX_TDS]
               ELSE LET fc == FaultCurrents(sc, sc.relays[j - nR(sc)])
                        lowest == CHOOSE c \in fc : \A e \in fc : c <= e
                    IN  [lo |-> MIN_PICKUP, hi |-> (MAX_PICKUP_FACTOR * lowest) \div 10]]]

\* a valid scenario: at least one relay and no interval with hi < lo
ValidIntervals ==
    /\ nR(Scenario) >= 1
    /\ \A j \in 1..Nv(Scenario) : GeneIntervals[scen][j].lo <= GeneIntervals[scen][j].hi

InBounds(iv, ind) ==
    \A j \in 1..Len(iv) : iv[j].lo <= ind[j] /\ ind[j] <= iv[j].hi

NearDuplicates(a, b) == \A j \in 1..Nv(Scenario) : Abs(a[j] - b[j]) < 1

\* C1: after initialization and after every generation step, whether the
\* child was inserted or discarded, the population X holds exactly Ni
\* individuals.
C1_PopulationSize == Initialized => Len(X) = GA_Ni

\* the end of a generation that inserted its child
C1_Witness == GenerationEnded /\ gate = "inserted" /\ Len(X) = GA_Ni

\* C2: the fitness of X_best never increases from one generation to the
\* next, in both scripts.
C2_BestNonIncreasing == [][pc = "replace" => F(X_best') <= F(X_best)]_vars

\* a generation after the first that strictly improved X_best
C2_Witness == GenerationEnded /\ gen >= 2 /\ variant = "fast" /\ stall = 0

\* C3: for a valid scenario every gene of every individual of the
\* population, of both children after crossover and after mutation, and of
\* X_best lies within [xmin[j], xmax[j]].
C3_GenesInBounds ==
    ValidIntervals =>
        /\ \A k \in 1..Len(X) : InBounds(GeneIntervals[scen], X[k])
        /\ X_best # <<>> => InBounds(GeneIntervals[scen], X_best)
        /\ H1 # <<>> => InBounds(GeneIntervals[scen], H1)
        /\ H2 # <<>> => InBounds(GeneIntervals[scen], H2)

\* both children mutated, one of them carrying a gene above its lower bound
C3_Witness ==
    /\ ValidIntervals
    /\ pc = "replace"
    /\ \E j \in 1..Nv(Scenario) : H1[j] > Bounds[scen].xmin[j]
    /\ \E j \in 1..Nv(Scenario) : H2[j] > Bounds[scen].xmin[j]

\* C4: no two distinct individuals of the population at the end of a run
\* have all Nv genes within 1e-12 of each other.
C4_NoDuplicatesAtEnd ==
    pc = "done" =>
        \A k, l \in 1..Len(X) : k # l => ~NearDuplicates(X[k], X[l])

\* the statements of the run still to execute, at most: 5 per generation
\* of the range that is left, plus those left of the current generation
StepsLeft ==
    CASE pc = "init"     -> 5 * GA_maxGen + 5
      [] pc = "loop"     -> 5 * (GA_maxGen - gen) + 1
      [] pc = "mutateH1" -> 5 * (GA_maxGen - gen) + 4
      [] pc = "mutateH2" -> 5 * (GA_maxGen - gen) + 3
      [] pc = "replace"  -> 5 * (GA_maxGen - gen) + 2
      [] pc = "done"     -> 0

\* C10: every run on a scenario with at least one relay terminates, and the
\* generation counter never exceeds maxGen whatever the random choices are:
\* gen <= maxGen always, the statement the run is at can always execute
\* (the replacement step has no condition but its position), and every step
\* strictly decreases the natural number StepsLeft.
C10_Terminates ==
    /\ [](gen <= GA_maxGen)
    /\ [](/\ pc = "init" => ENABLED InitPopulation \/ ENABLED ReturnEmpty
          /\ pc = "loop" => ENABLED Crossover
          /\ pc = "mutateH1" => ENABLED MutateH1
          /\ pc = "mutateH2" => ENABLED MutateH2)
    /\ [][StepsLeft' < StepsLeft /\ StepsLeft' >= 0]_vars

\* a run that ended at the generation cap without a perfect solution
C10_Witness == pc = "done" /\ gen = GA_maxGen /\ F(X_best) > 0

-----------------------------------------------------------------------------
(* group_data_by_scenario: the records of the input file are consumed one  *)
(* by one into scenario_map (SpecGroup).                                   *)

MaxRecords == 3

\* what get_numeric_field returns: None, or the float it parsed, which may
\* be nan (float("nan"), or NaN in the JSON file); v is in hundredths
None == [kind |-> "none", v |-> 0]
NaN == [kind |-> "nan", v |-> 0]
Float(v) == [kind |-> "float", v |-> v]

\* 'not x' of Python: None and 0.0 are falsy, nan is truthy
Falsy(x) == x.kind = "none" \/ (x.kind = "float" /\ x.v = 0)

\* 'x <= 0' of Python on a float: every comparison with nan is False
LeqZero(x) == x.kind = "float" /\ x.v <= 0

\* str(...).strip() on the relay names of the model
Strip(name) == IF name = " " THEN "" ELSE IF name = "A " THEN "A" ELSE name

\* a relay block of a record: absent, or a dict with its name and current
Absent == [present |-> FALSE, relay |-> "", Ishc |-> None]
Relay(name, current) == [present |-> TRUE, relay |-> name, Ishc |-> current]

GroupSids == {"", "s1", "s2"}
GroupRelays ==
    {Absent, Relay(" ", Float(100)), Relay("A", Float(100)), Relay("A ", Float(50)),
     Relay("B", Float(100)), Relay("B", None), Relay("B", Float(0)),
     Relay("B", Float(-50)), Relay("C", NaN)}

Entries == [scenario_id : GroupSids, main_relay : GroupRelays, backup_relay : GroupRelays]

\* the three 'continue' of the loop body (lines 104-105, 110-111, 117-118)
Skipped(entry) ==
    \/ entry.scenario_id = "" \/ ~entry.main_relay.present \/ ~entry.backup_relay.present
    \/ Strip(entry.main_relay.relay) = "" \/ Strip(entry.backup_relay.relay) = ""
    \/ Falsy(entry.main_relay.Ishc) \/ Falsy(entry.backup_relay.Ishc)
    \/ LeqZero(entry.main_relay.Ishc) \/ LeqZero(entry.backup_relay.Ishc)

\* 'if name not in relays: relays.append(name)'
Track(relays, name) ==
    IF \E i \in 1..Len(relays) : relays[i] = name THEN relays ELSE Append(relays, name)

\* the relay names of the stored pairs in the order of their first appearance
RECURSIVE FirstAppearance(_)
FirstAppearance(pairs) ==
    IF pairs = <<>> THEN <<>>
    ELSE LET n == Len(pairs)
         IN  Track(Track(FirstAppearance(SubSeq(pairs, 1, n - 1)), pairs[n].main_relay),
                   pairs[n].backup_relay)

\* lines 120-142: the scenario is created if needed, the pair appended and
\* both relay names tracked
Grouped(map, entry) ==
    LET sid == entry.scenario_id
        mname == Strip(entry.main_relay.relay)
        bname == Strip(entry.backup_relay.relay)
        old == IF sid \in DOMAIN map THEN map[sid] ELSE [pairs |-> <<>>, relays |-> <<>>]
        new == [pairs |-> Append(old.pairs,
                              Pair(mname, bname, entry.main_relay.Ishc,
                                   entry.backup_relay.Ishc)),
                relays |-> Track(Track(old.relays, mname), bname)]
    IN  [s \in DOMAIN map \cup {sid} |-> IF s = sid THEN new ELSE map[s]]

InitGroup ==
    /\ variant \in Variants /\ scen = "scenario_1" /\ pc = "group"
    /\ X = <<>> /\ X_best = <<>>
    /\ stall = 0 /\ gen = 0
    /\ H1 = <<>> /\ H2 = <<>> /\ gate = "none"
    /\ call = [fn |-> "group", n |-> 0] /\ ret = NoCall
    /\ quiet = 0 /\ scenario_map = <<>> /\ sel = NoSelection /\ parents = {}
    /\ procs = <<>>

\* one iteration of 'for entry in data_array'
ConsumeRecord ==
    /\ pc = "group"
    /\ call.n < MaxRecords
    /\ \E entry \in Entries :
          /\ call' = [fn |-> "group", n |-> call.n + 1, entry |-> entry]
          /\ scenario_map' = IF Skipped(entry) THEN scenario_map
                              ELSE Grouped(scenario_map, entry)
    /\ UNCHANGED <<variant, scen, pc, X, X_best, stall, gen, H1, H2, gate, ret, procs, quiet, sel, parents>>

\* the input is exhausted: return scenario_map
ReturnMap ==
    /\ pc = "group"
    /\ pc' = "returned"
    /\ ret' = Returned(scenario_map)
    /\ UNCHANGED <<variant, scen, X, X_best, stall, gen, H1, H2, gate, call, procs, quiet, scenario_map, sel, parents>>

NextGroup == ConsumeRecord \/ ReturnMap

SpecGroup == InitGroup /\ [][NextGroup]_vars

\* C11: a run stops as soon as the fitness of X_best is 0: no step of a
\* generation (selection and crossover, mutation, replacement) is executed
\* in a state where the fitness of X_best is already 0, the state right
\* after the initialization included.
C11_NoStepAtZero == [][(Running /\ pc' # pc) => F(X_best) # 0]_vars

\* C12: a run stops at the end of the first generation at which iterno
\* consecutive generations have left X_best without improvement: while the
\* run goes on, fewer than iterno such generations have elapsed.
C12_StopsOnStagnation == Running => quiet < GA_iterno

\* C20: at the end of every generation stall is 0 if X[0] improved on X_best
\* in that generation and otherwise one more than before, also when the
\* child was discarded, in both scripts; so stall is the number of
\* consecutive latest generations without improvement of X_best.
C20_StallCounts ==
    /\ [][pc = "replace" =>
            stall' = IF F(X'[1]) < F(X_best) THEN 0 ELSE stall + 1]_vars
    /\ [](Initialized => stall = quiet)


-----------------------------------------------------------------------------
(* Direct calls of relay_time and fitness on arbitrary arguments, also     *)
(* ones outside the bounds of the search.                                  *)

\* the scenarios whose fitness function is called
EvalScenarioIds == {"scenario_1", "scenario_2", "scenario_3"}

CallCurrents == {50, 80, 100}
CallPickups  == {0, 5, 48, 59, 96, 100, 120}
CallTDS      == {0, 5, 42, 80}

\* candidate vectors: per relay a positive TDS and a positive pickup
CandidateVectors(sc) ==
    {ind \in [1..Nv(sc) -> (CallTDS \cup CallPickups)] :
        \A j \in 1..Nv(sc) :
            IF j <= nR(sc) THEN ind[j] \in CallTDS \ {0}
            ELSE ind[j] \in CallPickups \ {0, 120}}

\* best individuals with genes of six decimal places (0.015625 and 0.046875
\* are exact binary fractions and exact ties of round(., 5)), followed by
\* the cached fitness
ExtractScenarioIds == {"scenario_1", "scenario_3", "scenario_4"}
ExtractDen == 1000000
ExtractGenes == {15625, 46875, 50000, 123454, 123456}
ExtractFitness == {0, 123456}

ExtractVectors(sc) ==
    {ind \in [1..(Nv(sc) + 1) -> (ExtractGenes \cup ExtractFitness)] :
        /\ \A j \in 1..Nv(sc) : ind[j] \in ExtractGenes
        /\ ind[Nv(sc) + 1] \in ExtractFitness}

\* scenarios as group_data_by_scenario builds them from one to MaxPairs
\* records: the pairs in order, the relays in order of first appearance
MaxPairs == 2
BoundsCurrents == {5, 50, 80, 100}
BoundsPairs ==
    {Pair(m, b, im, ib) : m \in {"A", "B"}, b \in {"A", "B"},
                          im \in BoundsCurrents, ib \in BoundsCurrents}
BoundsScenarios ==
    {ScenarioData(FirstAppearance(pairs), pairs) :
        pairs \in UNION {[1..n -> BoundsPairs] : n \in 1..MaxPairs}}

relay_time_outcome(v, I, PU, TDS) ==
    IF v = "oas" /\ relay_time_oas_raises(I, PU) THEN Raised
    ELSE Returned(relay_time_of(v, I, PU, TDS))

fitness_outcome(v, sc, ind) ==
    IF fitness_raises(v, sc, ind) THEN Raised ELSE Returned(fitness(v, sc, ind))

InitEval ==
    /\ variant = "fast" /\ scen = "scenario_1" /\ pc = "eval"
    /\ X = <<>> /\ X_best = <<>>
    /\ stall = 0 /\ gen = 0
    /\ H1 = <<>> /\ H2 = <<>> /\ gate = "none"
    /\ call = NoCall /\ ret = NoCall
    /\ quiet = 0 /\ scenario_map = <<>> /\ sel = NoSelection /\ parents = {}
    /\ procs = <<>>

CallRelayTime ==
    /\ pc = "eval"
    /\ pc' = "returned"
    /\ \E v \in Variants, I \in CallCurrents, PU \in CallPickups, TDS \in CallTDS :
          /\ call' = [fn |-> "relay_time", variant |-> v, I |-> I, PU |-> PU, TDS |-> TDS]
          /\ ret' = relay_time_outcome(v, I, PU, TDS)
    /\ UNCHANGED <<variant, scen, X, X_best, stall, gen, H1, H2, procs, gate, quiet, scenario_map, sel, parents>>

CallFitness ==
    /\ pc = "eval"
    /\ pc' = "returned"
    /\ \E v \in Variants, s \in EvalScenarioIds :
          \E ind \in CandidateVectors(ScenarioMap[s]) :
             /\ call' = [fn |-> "fitness", variant |-> v, scen |-> s, ind |-> ind]
             /\ ret' = fitness_outcome(v, ScenarioMap[s], ind)
    /\ UNCHANGED <<variant, scen, X, X_best, stall, gen, H1, H2, procs, gate, quiet, scenario_map, sel, parents>>

\* lines 307-320 applied to a best individual
CallExtract ==
    /\ pc = "eval"
    /\ pc' = "returned"
    /\ \E s \in ExtractScenarioIds :
          \E ind \in ExtractVectors(ScenarioMap[s]) :
             /\ call' = [fn |-> "extract", scen |-> s, X_best |-> ind]
             /\ ret' = Returned(optimized(ScenarioMap[s], <<ind>>, ind, ExtractDen))
    /\ UNCHANGED <<variant, scen, X, X_best, stall, gen, H1, H2, procs, gate, quiet, scenario_map, sel, parents>>

\* lines 188-202: idx, IscMin, xmin, xmax of a scenario
CallBounds ==
    /\ pc = "eval"
    /\ pc' = "returned"
    /\ \E sc \in BoundsScenarios :
          /\ call' = [fn |-> "bounds", sc |-> sc]
          /\ ret' = Returned([xmin |-> xmin(sc), xmax |-> xmax(sc)])
    /\ UNCHANGED <<variant, scen, X, X_best, stall, gen, H1, H2, procs, gate, quiet, scenario_map, sel, parents>>

NextEval == CallRelayTime \/ CallFitness \/ CallExtract \/ CallBounds

SpecEval == InitEval /\ [][NextEval]_vars

-----------------------------------------------------------------------------
(* Properties of the direct calls (SpecEval).                              *)

FitnessReturned == call.fn = "fitness" /\ ~ret.raised
CalledScenario == ScenarioMap[call.scen]

\* pair n of the called scenario is coordinated and within the time limit
PairCoordinated(n) ==
    LET tm == tM(call.variant, CalledScenario, call.ind, n)
        tb == tB(call.variant, CalledScenario, call.ind, n)
    IN  tb - tm >= CTI /\ tm <= MAX_TIME

\* C5: for every candidate vector and every scenario the fitness (TMT) that
\* fitness returns is >= 0.
C5_FitnessNonNegative == FitnessReturned => ret.value >= 0

\* a call whose scenario has a pair with a margin above CTI (a term that
\* would be negative) and that still returns a positive TMT
C5_Witness ==
    /\ FitnessReturned
    /\ ret.value > 0
    /\ \E n \in 1..Len(CalledScenario.pairs) :
          tB(call.variant, CalledScenario, call.ind, n)
            - tM(call.variant, CalledScenario, call.ind, n) > CTI

\* C6: fitness returns 0 if and only if every pair of the scenario has
\* tB - tM >= CTI and tM <= MAX_TIME.
C6_ZeroIffCoordinated ==
    FitnessReturned =>
        (ret.value = 0 <=> \A n \in 1..Len(CalledScenario.pairs) : PairCoordinated(n))

\* a call that returns 0 for a scenario with a pair
C6_Witness ==
    /\ FitnessReturned
    /\ ret.value = 0
    /\ Len(CalledScenario.pairs) >= 1

\* C7: relay_time returns exactly MAX_TIME*10 whenever I <= pickup, and for
\* all inputs its result lies in [0, MAX_TIME*10].
C7_RelayTimeRange ==
    call.fn = "relay_time" =>
        /\ ~ret.raised
        /\ ret.value >= 0 /\ ret.value <= MAX_TIME * 10
        /\ (call.I <= call.PU => ret.value = MAX_TIME * 10)

-----------------------------------------------------------------------------
(* Whole executions of a script: "python <script>" seeds the process-wide  *)
(* generator once and then optimizes the scenarios of its input one after  *)
(* the other.  The generator of the random module is modelled as a Lehmer  *)
(* generator; every draw advances its state.                               *)

Procs == {1, 2}          \* two executions, each its own interpreter

RngMod == 32749
RngMul == 202

\* (mutant) the generator seeded from the process instead of the constant
SeedFromProcess(p) == 42 + p

\* random.seed(42), executed once by every process
Seed(p) == 42

RngNext(s) == (RngMul * s) % RngMod

\* the states of the next n draws
RECURSIVE Stream(_, _)
Stream(s, n) == IF n = 0 THEN <<>> ELSE <<RngNext(s)>> \o Stream(RngNext(s), n - 1)

\* random.random() of a state, as a numerator over RandDen
Random(s) == (s * RandDen) \div RngMod

\* random.sample(pool, k): k times pick pool[randbelow(n)] and move the last
\* element of the pool into its place
RECURSIVE Sample(_, _, _)
Sample(pool, k, draws) ==
    IF k = 0 THEN <<>>
    ELSE LET n == Len(pool)
             j == (Head(draws) % n) + 1
         IN  <<pool[j]>> \o
             Sample(SubSeq([pool EXCEPT ![j] = pool[n]], 1, n - 1), k - 1, Tail(draws))

Range0(n) == [i \in 1..n |-> i - 1]               \* range(n)

\* draws of one generation: 2 parents, the cut point, and per child nMut
\* positions and nMut values
DrawsPerGeneration == 3 + 4 * GA_nMut

\* the initial population drawn from the generator in state s
SeededPopulation(v, sc, bd, s) ==
    LET st == Stream(s, GA_Ni * Nv(sc))
    IN  InitialPopulation(v, sc, bd,
            [k \in 1..GA_Ni |-> [j \in 1..Nv(sc) |-> Random(st[(k - 1) * Nv(sc) + j])]])

\* mutate(child) with the draws st[from + 1 .. from + 2 * nMut]
SeededMutate(child, sc, bd, st, from) ==
    mutate(child, bd,
           Sample(Range0(Nv(sc)), GA_nMut, SubSeq(st, from + 1, from + GA_nMut)),
           [i \in 1..GA_nMut |-> Random(st[from + GA_nMut + i])])

\* one generation of the loop drawn from the generator in state s
SeededGeneration(v, sc, bd, Xs, best, st0, s) ==
    LET st == Stream(s, DrawsPerGeneration)
        ss == Sample(Range0(GA_Ni), 2, SubSeq(st, 1, 2))
        P1 == Genes(Xs[ss[1] + 1])
        P2 == Genes(Xs[ss[2] + 1])
        cp == 1 + (st[3] % (Nv(sc) - 1))           \* random.randint(1, Nv - 1)
        h1 == SeededMutate(CrossoverChild(P1, P2, cp), sc, bd, st, 3)
        h2 == SeededMutate(CrossoverChild(P2, P1, cp), sc, bd, st, 3 + 2 * GA_nMut)
    IN  Generation(v, sc, Xs, best, st0, h1, h2)

\* validate_scenario_data of ga_optimization_fast.py; optimize_all_scenarios.py
\* only skips a scenario without pairs
Validates(v, sc) ==
    IF v = "fast"
    THEN Len(sc.pairs) >= 1 /\ Len(sc.names) >= 1
         /\ ~(Len(sc.pairs) < 5) /\ ~(Len(sc.names) < 3)
    ELSE Len(sc.pairs) >= 1

\* sorted(scenario_map.keys()) of a batch
SortedIds(batch) == SelectSeq(ScenarioOrder, LAMBDA s : s \in batch)

InitSeeded ==
    /\ variant \in Variants
    /\ scen = "scenario_1" /\ pc = "seeded"
    /\ X = <<>> /\ X_best = <<>>
    /\ stall = 0 /\ gen = 0
    /\ H1 = <<>> /\ H2 = <<>> /\ gate = "none"
    /\ call = NoCall /\ ret = NoCall
    /\ quiet = 0 /\ scenario_map = <<>> /\ sel = NoSelection /\ parents = {}
    /\ \E b \in [Procs -> (SUBSET BatchScenarioIds) \ {{}}] :
          \* the executions are not ordered: the first has the smaller input
          /\ Cardinality(b[1]) <= Cardinality(b[2])
          /\ procs = [p \in Procs |->
                       [rng |-> Seed(p), batch |-> b[p],
                        todo |-> SortedIds(b[p]), pc |-> "driver",
                        X |-> <<>>, X_best |-> <<>>, stall |-> 0, gen |-> 0,
                        runs |-> <<>>]]

\* (mutant) a failure ends the loop over the scenarios
Abort(todo) == <<>>

\* "continue", and the end of the except clause: on to the next scenario id
Continue(todo) == Tail(todo)

\* the entry the driver makes for a scenario whose run has ended or never
\* started
Recorded(sid, status, rng0, fits, result) ==
    [sid |-> sid, status |-> status, rng0 |-> rng0, fits |-> fits,
     result |-> result]

\* the driver's for loop takes the next scenario: skips it (lines 368-378,
\* oas 247-249), or calls the run, which returns {} (lines 184-186), raises
\* KeyError (lines 193-195) or draws its initial population (lines 237-249)
DriverNext(p) ==
    LET me == procs[p]
        sid == Head(me.todo)
        sc == ScenarioMap[sid]
    IN  /\ me.pc = "driver"
        /\ me.todo # <<>>
        /\ IF ~Validates(variant, sc)
           THEN procs' = [procs EXCEPT ![p] =
                    [me EXCEPT !.todo = Continue(me.todo),
                               !.runs = Append(me.runs,
                                   Recorded(sid, "skipped", me.rng, <<>>, NoCall))]]
           ELSE IF nR(sc) = 0
           THEN procs' = [procs EXCEPT ![p] =
                    [me EXCEPT !.todo = Continue(me.todo),
                               !.runs = Append(me.runs,
                                   Recorded(sid, DriverStatus(Returned(<<>>)), me.rng,
                                            <<>>, Returned(<<>>)))]]
           ELSE IF KeyErrors(sc)
           THEN procs' = [procs EXCEPT ![p] =
                    [me EXCEPT !.todo = Continue(me.todo),
                               !.runs = Append(me.runs,
                                   Recorded(sid, DriverStatus(Raised), me.rng,
                                            <<>>, Raised))]]
           ELSE \E Xn \in {SeededPopulation(variant, sc, Bounds[sid], me.rng)} :
                procs' = [procs EXCEPT ![p] =
                    [me EXCEPT !.rng = Stream(me.rng, GA_Ni * Nv(sc))[GA_Ni * Nv(sc)],
                               !.pc = "loop",
                               !.X = Xn, !.X_best = Xn[1], !.stall = 0, !.gen = 0,
                               !.runs = Append(me.runs,
                                   Recorded(sid, "running", me.rng, <<F(Xn[1])>>,
                                            NoCall))]]
        /\ UNCHANGED <<variant, scen, pc, X, X_best, stall, gen, H1, H2, gate, call, ret, quiet, scenario_map, sel, parents>>

\* one iteration of the run's for loop; when it stops the run returns its
\* settings, the driver records them and goes on
RunGeneration(p) ==
    LET me == procs[p]
        sid == Head(me.todo)
        sc == ScenarioMap[sid]
        n == Len(me.runs)
    IN  /\ me.pc = "loop"
        /\ \E g \in {SeededGeneration(variant, sc, Bounds[sid], me.X, me.X_best,
                                      me.stall, me.rng)} :
           LET stops == Stops(g.X_best, g.stall, me.gen + 1)
               fits == Append(me.runs[n].fits, F(g.X_best))
               result == Returned(optimized(sc, g.X, g.X_best, GeneDen))
           IN  procs' = [procs EXCEPT ![p] =
                    [me EXCEPT !.rng = Stream(me.rng, DrawsPerGeneration)[DrawsPerGeneration],
                               !.X = g.X, !.X_best = g.X_best, !.stall = g.stall,
                               !.gen = me.gen + 1,
                               !.pc = IF stops THEN "driver" ELSE "loop",
                               !.todo = IF stops THEN Continue(me.todo) ELSE me.todo,
                               !.runs = [me.runs EXCEPT ![n] =
                                   IF stops
                                   THEN Recorded(sid, DriverStatus(result), @.rng0,
                                                 fits, result)
                                   ELSE [@ EXCEPT !.fits = fits]]]]
        /\ UNCHANGED <<variant, scen, pc, X, X_best, stall, gen, H1, H2, gate, call, ret, quiet, scenario_map, sel, parents>>

\* the batch is exhausted
DriverExit(p) ==
    /\ procs[p].pc = "driver"
    /\ procs[p].todo = <<>>
    /\ procs' = [procs EXCEPT ![p].pc = "exit"]
    /\ UNCHANGED <<variant, scen, pc, X, X_best, stall, gen, H1, H2, gate, call, ret, quiet, scenario_map, sel, parents>>

NextSeeded == \E p \in Procs : DriverNext(p) \/ RunGeneration(p) \/ DriverExit(p)

SpecSeeded == InitSeeded /\ [][NextSeeded]_vars

-----------------------------------------------------------------------------
(* Properties of the seeded executions (SpecSeeded).                       *)

\* the fitness sequences of two runs agree generation by generation, and
\* entirely once both runs have returned
SameFits(r1, r2) ==
    /\ \A g \in 1..Min(Len(r1.fits), Len(r2.fits)) : r1.fits[g] = r2.fits[g]
    /\ (r1.status = "success" /\ r2.status = "success") => r1.fits = r2.fits

C9_RunsIndependent ==
    \A p, q \in Procs :
        \A i \in 1..Len(procs[p].runs), j \in 1..Len(procs[q].runs) :
            (/\ procs[p].runs[i].sid = procs[q].runs[j].sid
             /\ procs[p].runs[i].status = "success"
             /\ procs[q].runs[j].status = "success")
            => procs[p].runs[i].fits = procs[q].runs[j].fits

\* C14: when a relay's derived bound interval is invalid (its pickup upper
\* bound lies below MIN_PICKUP) the scenario fails: no population is
\* initialized and no settings mapping is returned for it.
C14_DegenerateScenarioFails ==
    (nR(Scenario) >= 1 /\ ~ValidIntervals) =>
        /\ X = <<>>
        /\ pc \in {"init", "done"}
        /\ pc = "done" => ret \in {Raised, Returned(<<>>)}

\* C15: an arithmetic failure inside relay_time (a division by zero) is
\* never propagated: the relay_time call returns the sentinel MAX_TIME*10
\* and a fitness evaluation that meets one still returns a value, in both
\* script variants.
C15_ArithmeticFailureContained ==
    /\ (call.fn = "relay_time" /\ call.I > call.PU /\ ZeroDivision(call.I, call.PU)) =>
          ret = Returned(MAX_TIME * 10)
    /\ call.fn = "fitness" => ~ret.raised

\* C17: whenever a run on a scenario with at least one relay stops (perfect
\* fitness, stagnation or generation cap) it returns the settings mapping
\* built from the current X_best: never an error, never an empty mapping.
C17_StopReturnsBest ==
    (pc = "done" /\ nR(Scenario) >= 1) =>
        /\ Stops(X_best, stall, gen)
        /\ ~ret.raised
        /\ ret.value # <<>>
        /\ \A r \in 1..nR(Scenario) :
              /\ Scenario.relays[r] \in DOMAIN ret.value
              /\ ret.value[Scenario.relays[r]].TDS * GeneDen = X_best[r] * 100000
              /\ ret.value[Scenario.relays[r]].pickup * GeneDen
                    = X_best[nR(Scenario) + r] * 100000

\* a run stopped by stagnation whose best individual is not perfect and
\* differs from the worst one
C17_Witness ==
    /\ pc = "done" /\ nR(Scenario) >= 1
    /\ F(X_best) # 0 /\ stall >= GA_iterno /\ gen < GA_maxGen
    /\ \E j \in 1..Nv(Scenario) : X[Len(X)][j] # X_best[j]

\* v hundred-thousandths is a nearest 5-decimal value of g / den
Nearest5(v, g, den) == 2 * Abs(v * (den \div 100000) - g) <= den \div 100000

\* C18: the extracted mapping has exactly one entry per relay of the
\* scenario, keyed by the relay ids; the entry of the relay at index r holds
\* as TDS gene r and as pickup gene R + r of the best individual, each
\* rounded to 5 decimal places, and nothing else: the cached fitness is not
\* emitted.
C18_ExtractedMapping ==
    call.fn = "extract" =>
        LET sc == ScenarioMap[call.scen]
            m == ret.value
        IN  /\ ~ret.raised
            /\ DOMAIN m = {sc.relays[r] : r \in 1..nR(sc)}
            /\ Cardinality(DOMAIN m) = nR(sc)
            /\ \A r \in 1..nR(sc) :
                  /\ DOMAIN m[sc.relays[r]] = {"TDS", "pickup"}
                  /\ Nearest5(m[sc.relays[r]].TDS, call.X_best[r], ExtractDen)
                  /\ Nearest5(m[sc.relays[r]].pickup, call.X_best[nR(sc) + r], ExtractDen)

\* an extraction for three relays with a gene that rounds up, a gene that
\* rounds down and an exact tie
C18_Witness ==
    /\ call.fn = "extract" /\ ~ret.raised
    /\ nR(ScenarioMap[call.scen]) = 3
    /\ call.X_best[1] = 123456 /\ ret.value[ScenarioMap[call.scen].relays[1]].TDS = 12346
    /\ call.X_best[4] = 123454 /\ ret.value[ScenarioMap[call.scen].relays[1]].pickup = 12345
    /\ call.X_best[2] = 15625 /\ ret.value[ScenarioMap[call.scen].relays[2]].TDS = 1562
    /\ call.X_best[5] = 46875 /\ ret.value[ScenarioMap[call.scen].relays[2]].pickup = 4688

\* a stored fault current is a number above zero
Positive(x) == x.kind = "float" /\ x.v > 0

\* a record without scenario id, without a relay name, or with a fault
\* current that is not positive
InvalidRecord(entry) ==
    \/ entry.scenario_id = ""
    \/ ~entry.main_relay.present \/ ~entry.backup_relay.present
    \/ Strip(entry.main_relay.relay) = "" \/ Strip(entry.backup_relay.relay) = ""
    \/ LeqZero(entry.main_relay.Ishc) \/ LeqZero(entry.backup_relay.Ishc)

\* every scenario of the map has its pairs' endpoints among its relays
EndpointsListed ==
    \A sid \in DOMAIN scenario_map :
        \A i \in 1..Len(scenario_map[sid].pairs) :
            \A name \in {scenario_map[sid].pairs[i].main_relay,
                          scenario_map[sid].pairs[i].backup_relay} :
                \E r \in 1..Len(scenario_map[sid].relays) : scenario_map[sid].relays[r] = name

\* relays without duplicates, in order of first appearance, and non-empty
\* like pairs
RelaysOrdered ==
    \A sid \in DOMAIN scenario_map :
        LET relays == scenario_map[sid].relays
        IN  /\ \A i, j \in 1..Len(relays) : relays[i] = relays[j] => i = j
            /\ relays = FirstAppearance(scenario_map[sid].pairs)
            /\ relays # <<>> /\ scenario_map[sid].pairs # <<>>

\* an invalid record leaves the map as it was
InvalidIgnored ==
    [][(pc = "group" /\ call' # call /\ InvalidRecord(call'.entry)) =>
            scenario_map' = scenario_map]_vars

\* C19: after group_data_by_scenario has consumed any sequence of records,
\* every scenario of the map has both endpoints of every pair in relays,
\* relays without duplicates and in order of first appearance, relays and
\* pairs non-empty, and every stored fault current strictly positive; a
\* record with a missing scenario id, a missing relay name or a non-positive
\* fault current leaves the map unchanged.
C19_GroupedScenarios ==
    /\ [](pc \in {"group", "returned"} =>
            /\ EndpointsListed
            /\ RelaysOrdered
            /\ \A sid \in DOMAIN scenario_map :
                  \A i \in 1..Len(scenario_map[sid].pairs) :
                      /\ Positive(scenario_map[sid].pairs[i].Ishc_main)
                      /\ Positive(scenario_map[sid].pairs[i].Ishc_backup))
    /\ InvalidIgnored

\* C13: a scenario with zero relays fails: its run returns an empty mapping
\* that the driver records as a failure, without creating a population (no
\* draw from the generator, no best fitness) and without executing any
\* generation of the loop.
C13_EmptyScenarioFails ==
    \A p \in Procs :
        \A i \in 1..Len(procs[p].runs) :
            LET r == procs[p].runs[i]
            IN  (nR(ScenarioMap[r.sid]) = 0 /\ r.status # "skipped") =>
                    /\ r.status = "failed"
                    /\ r.result = Returned(<<>>)
                    /\ r.fits = <<>>
                    /\ IF i < Len(procs[p].runs)
                       THEN procs[p].runs[i + 1].rng0 = r.rng0
                       ELSE procs[p].rng = r.rng0 /\ procs[p].pc # "loop"

\* an execution that met the scenario without relays and went on
C13_Witness ==
    \E p \in Procs :
        /\ procs[p].pc = "exit"
        /\ \E i \in 1..Len(procs[p].runs) :
              /\ procs[p].runs[i].sid = "scenario_0"
              /\ procs[p].runs[i].status = "failed"

Failures == {"skipped", "failed", "error"}

\* C16: in the batch driver a failure (exception, empty result, validation
\* rejection) of one scenario never prevents a later scenario from being
\* processed: the scenario ids are visited once each, in order, none is
\* dropped, every step of the driver takes the next id until the batch is
\* exhausted, and an entry recorded for a scenario is never changed
\* afterwards.
C16_BatchIsolation ==
    /\ [](\A p \in Procs :
            LET me == procs[p]
                ids == SortedIds(me.batch)
            IN  /\ Len(me.runs) <= Len(ids)
                /\ \A i \in 1..Len(me.runs) : me.runs[i].sid = ids[i]
                /\ Len(me.runs) + Len(me.todo)
                      = Len(ids) + (IF me.pc = "loop" THEN 1 ELSE 0)
                /\ me.pc = "exit" =>
                      /\ Len(me.runs) = Len(ids)
                      /\ \A i \in 1..Len(ids) :
                            me.runs[i].status \in Failures \cup {"success"}
                /\ me.pc = "exit" => me.todo = <<>>)
    /\ [][\A p \in Procs :
            /\ \A i \in 1..Len(procs[p].runs) :
                  procs[p].runs[i].status # "running" =>
                      /\ i <= Len(procs'[p].runs)
                      /\ procs'[p].runs[i] = procs[p].runs[i]
            /\ (procs[p].pc = "driver" /\ procs'[p] # procs[p]) =>
                  IF procs[p].todo = <<>>
                  THEN procs'[p].pc = "exit"
                  ELSE /\ Len(procs'[p].runs) = Len(procs[p].runs) + 1
                       /\ procs'[p].runs[Len(procs'[p].runs)].sid = Head(procs[p].todo)
                       /\ procs'[p].pc \in {"driver", "loop"}]_vars

\* an execution that ended after a failed scenario followed by a successful
\* one, and that also met an exception
C16_Witness ==
    \E p \in Procs :
        /\ procs[p].pc = "exit"
        /\ \E i, j \in 1..Len(procs[p].runs) :
              /\ i < j
              /\ procs[p].runs[i].status \in Failures
              /\ procs[p].runs[j].status = "success"
        /\ \E k \in 1..Len(procs[p].runs) : procs[p].runs[k].status = "error"

-----------------------------------------------------------------------------
(* The generation step in detail (Spec).                                   *)

\* how often a row occurs in a population
Count(rows, row) == Cardinality({k \in 1..Len(rows) : rows[k] = row})

\* the child a generation hands to the gate: the one of lower fitness
Candidate ==
    LET f1 == fitness(variant, Scenario, H1)
        f2 == fitness(variant, Scenario, H2)
    IN  IF f2 < f1 THEN Append(H2, f2) ELSE Append(H1, f1)

\* strictly better than the worst individual and no near-duplicate of any
GatePasses(c) ==
    /\ F(c) < F(X[GA_Ni])
    /\ \A k \in 1..GA_Ni : ~NearDuplicates(c, X[k])

\* the population after the step holds the candidate in place of the last
\* slot if the gate passes, and is unchanged otherwise
WorstReplaced(c) ==
    IF GatePasses(c)
    THEN /\ Len(X') = GA_Ni
         /\ \A row \in {X[k] : k \in 1..GA_Ni} \cup {X'[k] : k \in 1..GA_Ni} \cup {c} :
               Count(X', row) = Count(SubSeq(X, 1, GA_Ni - 1), row)
                                  + (IF row = c THEN 1 ELSE 0)
         /\ gate' = "inserted"
    ELSE X' = X /\ gate' # "inserted"

\* both parents are still in the population after the step
ParentsKept == \A k \in parents : Count(X', X[k]) >= 1

\* C21 as stated: the candidate is the child of lower fitness; it replaces
\* exactly the worst individual iff it is strictly better than it and no
\* near-duplicate, otherwise the population is unchanged; in either case
\* the Ni-1 other individuals, both parents included, keep their genes and
\* cached fitness.
C21_GateFrameWithParents ==
    [][pc = "replace" =>
          \E c \in {Candidate} : WorstReplaced(c) /\ ParentsKept]_vars

\* C21, amended: as above, but a parent that sits in the last slot is the
\* individual the candidate replaces; the individuals of the other Ni-1
\* slots keep their genes and cached fitness.
C21_GateFrame ==
    [][pc = "replace" =>
          \E c \in {Candidate} :
              /\ WorstReplaced(c)
              /\ \A k \in 1..(GA_Ni - 1) : Count(X', X[k]) >= 1]_vars

\* the end of a generation whose candidate replaced the worst individual
\* and did not become the best
C21_Witness ==
    /\ GenerationEnded /\ gate = "inserted"
    /\ F(X[1]) < F(X[GA_Ni])

\* C22: after initialization and at the end of every generation the
\* population is sorted ascending by cached fitness, so slot 0 holds a
\* minimum-fitness individual and the last slot, which the next gate reads
\* as the worst, a maximum-fitness one.
C22_PopulationSorted ==
    Initialized =>
        /\ \A k \in 1..(GA_Ni - 1) : F(X[k]) <= F(X[k + 1])
        /\ \A k \in 1..GA_Ni : F(X[1]) <= F(X[k]) /\ F(X[k]) <= F(X[GA_Ni])

\* the end of a generation whose child went into the last slot and was
\* sorted to the front as the new best
C22_Witness ==
    /\ GenerationEnded /\ gate = "inserted" /\ stall = 0
    /\ F(X[1]) < F(X[GA_Ni]) /\ X_best = X[1]

\* C23: replacement never removes the current best: after initialization
\* and at the end of every generation the fitness of X_best equals the
\* fitness of X[0], and an individual with the genes of X_best is still in
\* the population.
C23_BestSurvives ==
    (Initialized /\ pc \in {"loop", "done"}) =>
        /\ F(X_best) = F(X[1])
        /\ \E k \in 1..GA_Ni : Genes(X[k]) = Genes(X_best)

\* the end of a generation that replaced the worst individual without
\* improving on the best
C23_Witness ==
    /\ GenerationEnded /\ gate = "inserted" /\ stall >= 1
    /\ X[1] = X_best /\ X[GA_Ni] # X_best

\* C24: crossover uses two distinct parent indices and one cut point cp
\* with 1 <= cp <= Nv-1; before mutation H1 = P1[0:cp] + P2[cp:Nv] and
\* H2 = P2[0:cp] + P1[cp:Nv]: both children have length Nv, each takes at
\* least one gene from each parent, and at every position j the pair
\* {H1[j], H2[j]} equals {P1[j], P2[j]}.
C24_Crossover ==
    pc = "mutateH1" =>
        LET P1 == Genes(X[sel.s1])
            P2 == Genes(X[sel.s2])
        IN  /\ sel.s1 \in 1..GA_Ni /\ sel.s2 \in 1..GA_Ni /\ sel.s1 # sel.s2
            /\ parents = {sel.s1, sel.s2}
            /\ 1 <= sel.cp /\ sel.cp <= Nv(Scenario) - 1
            /\ Len(H1) = Nv(Scenario) /\ Len(H2) = Nv(Scenario)
            /\ \A j \in 1..Nv(Scenario) :
                  /\ H1[j] = IF j <= sel.cp THEN P1[j] ELSE P2[j]
                  /\ H2[j] = IF j <= sel.cp THEN P2[j] ELSE P1[j]
                  /\ {H1[j], H2[j]} = {P1[j], P2[j]}
            /\ H1[1] = P1[1] /\ H1[Nv(Scenario)] = P2[Nv(Scenario)]
            /\ H2[1] = P2[1] /\ H2[Nv(Scenario)] = P1[Nv(Scenario)]

\* children of two parents that differ on both sides of an inner cut point:
\* each child differs from both parents
C24_Witness ==
    /\ pc = "mutateH1" /\ sel.cp = 2 /\ Nv(Scenario) = 4
    /\ H1 # Genes(X[sel.s1]) /\ H1 # Genes(X[sel.s2])
    /\ H2 # Genes(X[sel.s1]) /\ H2 # Genes(X[sel.s2])

\* a mutation made new of old: nMut distinct positions were re-drawn, each
\* to a value within its bounds, and the other genes are as they were
Mutated(old, new) ==
    \E M \in SUBSET (1..Nv(Scenario)) :
        /\ Cardinality(M) = GA_nMut
        /\ \A j \in (1..Nv(Scenario)) \ M : new[j] = old[j]
        /\ \A j \in M : /\ GeneIntervals[scen][j].lo <= new[j]
                         /\ new[j] <= GeneIntervals[scen][j].hi

\* a mutation step changes its child as a mutation does and nothing else
MutationStep ==
    /\ pc = "mutateH1" =>
          Mutated(H1, H1') /\ H2' = H2 /\ X' = X /\ X_best' = X_best
    /\ pc = "mutateH2" =>
          Mutated(H2, H2') /\ H1' = H1 /\ X' = X /\ X_best' = X_best

\* C25: mutation of a child re-draws exactly nMut distinct gene positions,
\* each to a value within that position's bounds [xmin[m], xmax[m]], and
\* leaves the other Nv - nMut genes of that child unchanged; mutating one
\* child changes neither the other child nor any population member.
C25_MutationFrame == [][MutationStep]_vars

\* the same for the scenarios whose intervals are valid
MutationFrameIfValid == [][ValidIntervals => MutationStep]_vars

\* C27: the cached fitness of every individual equals the fitness function
\* applied to its current genes, for all Ni members of the population and
\* for X_best, after initialization and after every generation.
C27_CachedFitness ==
    Initialized =>
        /\ \A k \in 1..GA_Ni : F(X[k]) = fitness(variant, Scenario, Genes(X[k]))
        /\ F(X_best) = fitness(variant, Scenario, Genes(X_best))

\* the end of a generation that inserted a mutated child of positive
\* fitness, which is not the best
C27_Witness ==
    /\ GenerationEnded /\ gate = "inserted"
    /\ F(X[GA_Ni]) > 0 /\ F(X[1]) < F(X[GA_Ni])
    /\ F(X[GA_Ni]) = fitness(variant, Scenario, Genes(X[GA_Ni]))

\* all fault currents of the scenario are positive
PositiveCurrents(sc) ==
    \A n \in 1..Len(sc.pairs) : sc.pairs[n].Ishc_main > 0 /\ sc.pairs[n].Ishc_backup > 0

\* the pickups of ind stay at or below MAX_PICKUP_FACTOR times, and strictly
\* below, the fault current of every pair, for the main and the backup relay
PickupsBelowCurrents(sc, ind) ==
    \A n \in 1..Len(sc.pairs) :
        LET p  == sc.pairs[n]
            pm == ind[nR(sc) + idx(sc, p.main_relay)]
            pb == ind[nR(sc) + idx(sc, p.backup_relay)]
        IN  /\ 10 * pm <= MAX_PICKUP_FACTOR * p.Ishc_main /\ pm < p.Ishc_main
            /\ 10 * pb <= MAX_PICKUP_FACTOR * p.Ishc_backup /\ pb < p.Ishc_backup

\* an evaluation of ind takes the branch "if I <= PU" of relay_time
SentinelBranch(sc, ind) ==
    \E n \in 1..Len(sc.pairs) :
        LET p == sc.pairs[n]
        IN  \/ p.Ishc_main <= ind[nR(sc) + idx(sc, p.main_relay)]
            \/ p.Ishc_backup <= ind[nR(sc) + idx(sc, p.backup_relay)]

\* the individuals whose fitness has been or is about to be evaluated: the
\* rows of the population and, at the replacement, the two mutated children
Evaluated ==
    {Genes(X[k]) : k \in 1..Len(X)} \cup (IF pc = "replace" THEN {H1, H2} ELSE {})

\* C29: in a scenario with positive fault currents and valid bounds every
\* individual of the search is in bounds and has, for every pair, a pickup
\* of at most MAX_PICKUP_FACTOR times the fault current of that relay, hence
\* strictly below it, so no evaluation takes the branch I <= pickup of
\* relay_time.
C29_NoSentinelBranch ==
    (ValidIntervals /\ PositiveCurrents(Scenario)) =>
        \A ind \in Evaluated :
            /\ InBounds(GeneIntervals[scen], ind)
            /\ PickupsBelowCurrents(Scenario, ind)
            /\ ~SentinelBranch(Scenario, ind)

\* a child holding the highest pickup a draw can give has been evaluated
\* and inserted
C29_Witness ==
    /\ ValidIntervals /\ PositiveCurrents(Scenario)
    /\ GenerationEnded /\ gate = "inserted" /\ Len(Scenario.pairs) >= 2
    /\ \E k \in 1..GA_Ni, j \in (nR(Scenario) + 1)..Nv(Scenario) :
          /\ X[k][j] = DrawGene(Bounds[scen], j, 99)
          /\ X[k][j] > MIN_PICKUP

-----------------------------------------------------------------------------
(* Runs under configurations with GA_iterno >= GA_maxGen, as both scripts  *)
(* ship them (SpecShipped): call holds the two constants of the run.       *)

MaxGenCap == 2

Config(i, m) == [fn |-> "config", iterno |-> i, maxGen |-> m]

\* iterno = maxGen as shipped (1000/1000 and 50000/50000), and iterno above
ShippedConfigs == UNION {{Config(m, m), Config(m + 1, m)} : m \in 1..MaxGenCap}

ShippedScenarioIds == {"scenario_1", "scenario_3"}

InitShipped ==
    /\ variant \in Variants
    /\ scen \in ShippedScenarioIds
    /\ pc = "init"
    /\ X = <<>> /\ X_best = <<>>
    /\ stall = 0 /\ gen = 0
    /\ H1 = <<>> /\ H2 = <<>> /\ gate = "none"
    /\ call \in ShippedConfigs /\ ret = NoCall
    /\ quiet = 0 /\ scenario_map = <<>> /\ sel = NoSelection /\ parents = {}
    /\ procs = <<>>

\* the stopping criteria with the constants of the configuration
StopsAt(cfg, best, st, g) == F(best) = 0 \/ st >= cfg.iterno \/ g >= cfg.maxGen

\* evaluation, replacement and stopping tests under the configuration
ReplaceShipped ==
    /\ pc = "replace"
    /\ \E g \in {Generation(variant, Scenario, X, X_best, stall, H1, H2)} :
          /\ X' = g.X
          /\ X_best' = g.X_best
          /\ stall' = g.stall
          /\ gate' = g.gate
          /\ quiet' = IF F(g.X_best) < F(X_best) THEN 0 ELSE quiet + 1
          /\ IF StopsAt(call, g.X_best, g.stall, gen)
             THEN /\ pc' = "done"
                  /\ ret' = Returned(optimized(Scenario, g.X, g.X_best, GeneDen))
             ELSE /\ pc' = "loop"
                  /\ ret' = ret
    /\ H1' = <<>> /\ H2' = <<>> /\ parents' = {}
    /\ UNCHANGED <<variant, scen, gen, call, procs, scenario_map, sel>>

NextShipped == InitPopulation \/ Crossover \/ MutateH1 \/ MutateH2 \/ ReplaceShipped

SpecShipped == InitShipped /\ [][NextShipped]_vars

\* C30: when iterno >= maxGen the stall counter is at most the generation
\* counter at all times, so stall reaches iterno at generation maxGen at the
\* earliest, and a run that stops before generation maxGen stops because
\* the fitness of X_best is 0, never because of the stagnation criterion.
C30_StagnationNotBeforeCap ==
    (Initialized /\ call.iterno >= call.maxGen) =>
        /\ stall <= gen
        /\ stall >= call.iterno => gen >= call.maxGen
        /\ (pc = "done" /\ F(X_best) # 0) => gen = call.maxGen
        /\ (pc = "loop" /\ F(X_best) # 0) => gen < call.maxGen

\* a run with iterno = maxGen = 2 whose stagnation criterion fires, at the
\* generation cap
C30_Witness ==
    /\ pc = "done" /\ call.iterno = call.maxGen /\ call.maxGen = MaxGenCap
    /\ stall >= call.iterno /\ gen = call.maxGen /\ F(X_best) # 0

-----------------------------------------------------------------------------
(* Both scripts run side by side on one scenario and one sequence of       *)
(* random draws (SpecVariants): procs[v] is the run of variant v.          *)

VariantScenarioIds == {"scenario_1", "scenario_2", "scenario_3", "scenario_6"}

InitVariants ==
    /\ variant = "fast" /\ scen \in VariantScenarioIds /\ pc = "variants"
    /\ X = <<>> /\ X_best = <<>>
    /\ stall = 0 /\ gen = 0
    /\ H1 = <<>> /\ H2 = <<>> /\ gate = "none"
    /\ call = NoCall /\ ret = NoCall
    /\ quiet = 0 /\ scenario_map = <<>> /\ sel = NoSelection /\ parents = {}
    /\ procs = [v \in Variants |->
                  [pc |-> "init", X |-> <<>>, X_best |-> <<>>, stall |-> 0,
                   gen |-> 0, H1 |-> <<>>, H2 |-> <<>>, ret |-> NoCall]]

\* both runs draw their initial population from the same draws
BothInitPopulation ==
    /\ \A v \in Variants : procs[v].pc = "init"
    /\ \E rs \in [1..GA_Ni -> [1..Nv(Scenario) -> RandNums]] :
          procs' = [v \in Variants |->
                      LET Xn == InitialPopulation(v, Scenario, Bounds[scen], rs)
                      IN  [procs[v] EXCEPT !.pc = IF GA_maxGen >= 1 THEN "loop" ELSE "done",
                                           !.X = Xn, !.X_best = Xn[1]]]
    /\ UNCHANGED <<variant, scen, pc, X, X_best, stall, gen, H1, H2, gate, call, ret, quiet, scenario_map, sel, parents>>

\* selection and crossover from the same s1, s2 and cp, in the runs still
\* in their loop
BothCrossover ==
    /\ \E v \in Variants : procs[v].pc = "loop"
    /\ \E s1, s2 \in 1..GA_Ni, cp \in 1..(Nv(Scenario) - 1) :
          /\ s1 # s2
          /\ procs' = [v \in Variants |->
                IF procs[v].pc # "loop" THEN procs[v]
                ELSE [procs[v] EXCEPT
                        !.pc = "mutateH1", !.gen = @ + 1,
                        !.H1 = CrossoverChild(Genes(procs[v].X[s1]), Genes(procs[v].X[s2]), cp),
                        !.H2 = CrossoverChild(Genes(procs[v].X[s2]), Genes(procs[v].X[s1]), cp)]]
    /\ UNCHANGED <<variant, scen, pc, X, X_best, stall, gen, H1, H2, gate, call, ret, quiet, scenario_map, sel, parents>>

\* the mutation of H1 from the same positions and values
BothMutateH1 ==
    /\ \E v \in Variants : procs[v].pc = "mutateH1"
    /\ \E ms \in Samples(Nv(Scenario), GA_nMut), rs \in [1..GA_nMut -> RandNums] :
          procs' = [v \in Variants |->
                IF procs[v].pc # "mutateH1" THEN procs[v]
                ELSE [procs[v] EXCEPT !.pc = "mutateH2",
                                      !.H1 = mutate(@, Bounds[scen], ms, rs)]]
    /\ UNCHANGED <<variant, scen, pc, X, X_best, stall, gen, H1, H2, gate, call, ret, quiet, scenario_map, sel, parents>>

\* the mutation of H2 from the same positions and values
BothMutateH2 ==
    /\ \E v \in Variants : procs[v].pc = "mutateH2"
    /\ \E ms \in Samples(Nv(Scenario), GA_nMut), rs \in [1..GA_nMut -> RandNums] :
          procs' = [v \in Variants |->
                IF procs[v].pc # "mutateH2" THEN procs[v]
                ELSE [procs[v] EXCEPT !.pc = "replace",
                                      !.H2 = mutate(@, Bounds[scen], ms, rs)]]
    /\ UNCHANGED <<variant, scen, pc, X, X_best, stall, gen, H1, H2, gate, call, ret, quiet, scenario_map, sel, parents>>

\* evaluation, replacement and stopping tests of the run me of variant v
VariantReplace(v, me) ==
    LET g == Generation(v, Scenario, me.X, me.X_best, me.stall, me.H1, me.H2)
        stops == Stops(g.X_best, g.stall, me.gen)
    IN  [pc |-> IF stops THEN "done" ELSE "loop",
         X |-> g.X, X_best |-> g.X_best, stall |-> g.stall, gen |-> me.gen,
         H1 |-> <<>>, H2 |-> <<>>,
         ret |-> IF stops THEN Returned(optimized(Scenario, g.X, g.X_best, GeneDen))
                 ELSE me.ret]

\* evaluation and replacement in the runs that have their two children
BothReplace ==
    /\ \E v \in Variants : procs[v].pc = "replace"
    /\ procs' = [v \in Variants |->
                   IF procs[v].pc = "replace" THEN VariantReplace(v, procs[v])
                   ELSE procs[v]]
    /\ UNCHANGED <<variant, scen, pc, X, X_best, stall, gen, H1, H2, gate, call, ret, quiet, scenario_map, sel, parents>>

NextVariants ==
    BothInitPopulation \/ BothCrossover \/ BothMutateH1 \/ BothMutateH2 \/ BothReplace

SpecVariants == InitVariants /\ [][NextVariants]_vars

\* C28: the two script variants, run on the same scenario with the same
\* sequence of random draws and the same Ni, nMut, iterno and maxGen, hold
\* the same population and the same best solution after every generation
\* and stop at the same generation with the same returned mapping.
C28_VariantsAgree ==
    pc = "variants" =>
        /\ procs["fast"].X = procs["oas"].X
        /\ procs["fast"].X_best = procs["oas"].X_best
        /\ procs["fast"].pc = procs["oas"].pc
        /\ procs["fast"].gen = procs["oas"].gen
        /\ procs["fast"].ret = procs["oas"].ret

\* as long as both runs are in their loop they hold the same population
\* and the same best solution
VariantsAgreeWhileRunning ==
    (pc = "variants" /\ \A v \in Variants : procs[v].pc = "loop") =>
        /\ procs["fast"].X = procs["oas"].X
        /\ procs["fast"].X_best = procs["oas"].X_best
        /\ procs["fast"].gen = procs["oas"].gen

-----------------------------------------------------------------------------
(* The bounds of a scenario (SpecEval).                                    *)

\* C26: for every relay r the derived pickup upper bound is
\* MAX_PICKUP_FACTOR times the minimum, over all pairs in which r appears,
\* of Ishc_main where r is the main relay and Ishc_backup where r is the
\* backup relay (both when a pair names r in both roles); the TDS bounds
\* are [MIN_TDS, MAX_TDS] and the pickup lower bound is MIN_PICKUP.
C26_DerivedBounds ==
    call.fn = "bounds" =>
        LET sc == call.sc
            bd == ret.value
        IN  /\ ~ret.raised
            /\ Len(bd.xmin) = Nv(sc) /\ Len(bd.xmax) = Nv(sc)
            /\ \A r \in 1..nR(sc) :
                  LET fc == FaultCurrents(sc, sc.relays[r])
                  IN  /\ bd.xmin[r] = MIN_TDS /\ bd.xmax[r] = MAX_TDS
                      /\ bd.xmin[nR(sc) + r] = MIN_PICKUP
                      /\ fc # {}
                      /\ \E c \in fc :
                            /\ \A e \in fc : c <= e
                            /\ 10 * bd.xmax[nR(sc) + r] = MAX_PICKUP_FACTOR * c

\* the bounds of a scenario in which relay A has its lowest current as a
\* backup relay, in a pair that names it in both roles
C26_Witness ==
    /\ call.fn = "bounds" /\ ~ret.raised
    /\ call.sc.relays = <<"B", "A">>
    /\ call.sc.pairs = << Pair("B", "A", 100, 80), Pair("A", "A", 100, 50) >>
    /\ ret.value.xmax = <<MAX_TDS, MAX_TDS, 60, 30>>

=============================================================================
